---- MODULE Spec2Model ----
(***************************************************************************)
(* GCPDataCatalogProxy (metadata_service/proxy/gcp_data_catalog_proxy.py): *)
(* the proxy's public operations over an external Data Catalog client, and *)
(* the pure parsing / projection helpers they are built from.              *)
(*                                                                         *)
(* Python strings are sequences of one-character strings, so that split,   *)
(* replace, strip, regular-expression matching and string comparison are   *)
(* computed character by character as the interpreter computes them.       *)
(* A Python dict is a function whose DOMAIN is its key set; a call's       *)
(* result is a record [outcome, value], outcome "ok" for a normal return   *)
(* and the exception's class name when the call raises.                    *)
(***************************************************************************)
EXTENDS Integers, Sequences, FiniteSets, TLC

VARIABLES
    catalog,    \* entries of the external catalog: entry name -> entry
    tags,       \* tag listing of the external catalog: resource link -> tags
    arg,        \* arguments of the call the state reports
    ret,        \* [op, outcome, value]: how that call ended
    calls,      \* the catalog-client calls that call issued, in order
    pulled      \* how many elements that call pulled from the search stream

vars == <<catalog, tags, arg, ret, calls, pulled>>

---------------------------------------------------------------------------
(* Strings *)

NL == "\n"

StrUpTo(A, n) == UNION {[1..k -> A] : k \in 0..n}

Sub(s, a, b) == IF a > b THEN <<>> ELSE SubSeq(s, a, b)

StartsAt(s, i, lit) ==
    /\ i >= 1
    /\ i + Len(lit) - 1 <= Len(s)
    /\ \A k \in 1..Len(lit) : s[i + k - 1] = lit[k]

EndsWith(s, lit) == Len(lit) <= Len(s) /\ StartsAt(s, Len(s) - Len(lit) + 1, lit)

NoNL(s, a, b) == \A k \in a..b : s[k] # NL

SetMin(S) == CHOOSE m \in S : \A o \in S : m <= o
SetMax(S) == CHOOSE m \in S : \A o \in S : m >= o

EmptyDict == [k \in {} |-> <<>>]

\* a normal return of a value of the given Python type; an exception
Ok(type, v) == [outcome |-> "ok", type |-> type, value |-> v]
Raise(e) == [outcome |-> e, type |-> "exception", value |-> <<>>]

None == [none |-> TRUE]

---------------------------------------------------------------------------
\* _extract_info_from_uri: re.match of the pattern
\*   ^ <entity: lazy any> :// <cluster: greedy any> . <db: lazy any> / <name: lazy any> $
\* A match is <<i, j, k, e>>: "://" starts at i, the "." is at j, the "/"
\* at k and the name ends at e; "any" is any character but a newline, and
\* "$" matches at the end or before a final newline.  The backtracking
\* order makes entity shortest, then cluster longest, then db shortest.

S_sep == <<":", "/", "/">>

UriEnds(u) == {Len(u)} \cup (IF Len(u) >= 1 /\ u[Len(u)] = NL THEN {Len(u) - 1} ELSE {})

UriMatchesFrom(u, i) ==
    {m \in {i} \X {j \in (i + 3)..Len(u) : u[j] = "."}
               \X {k \in (i + 4)..Len(u) : u[k] = "/"} \X UriEnds(u) :
        /\ m[2] < m[3]
        /\ m[3] <= m[4]
        /\ NoNL(u, i + 3, m[2] - 1)
        /\ NoNL(u, m[2] + 1, m[3] - 1)
        /\ NoNL(u, m[3] + 1, m[4])}

UriStarts(u) ==
    {i \in 1..Len(u) : StartsAt(u, i, S_sep) /\ NoNL(u, 1, i - 1) /\ UriMatchesFrom(u, i) # {}}

\* of two matches from the same start: the longer cluster, then the shorter db,
\* then the shorter name
UriPrefers(m, o) ==
    \/ m[2] > o[2]
    \/ m[2] = o[2] /\ m[3] < o[3]
    \/ m[2] = o[2] /\ m[3] = o[3] /\ m[4] <= o[4]

UriBest(M) == CHOOSE m \in M : \A o \in M : UriPrefers(m, o)

UriMatch(u) == UriBest(UriMatchesFrom(u, SetMin(UriStarts(u))))

\* groupdict_uri, had the last group of the pattern been left unnamed
groupdict_uri_unnamed(u, m) ==
    [entity  |-> Sub(u, 1, m[1] - 1),
     cluster |-> Sub(u, m[1] + 3, m[2] - 1),
     db      |-> Sub(u, m[2] + 1, m[3] - 1)]

groupdict_uri(u, m) ==
    [entity  |-> Sub(u, 1, m[1] - 1),
     cluster |-> Sub(u, m[1] + 3, m[2] - 1),
     db      |-> Sub(u, m[2] + 1, m[3] - 1),
     name    |-> Sub(u, m[3] + 1, m[4])]

_extract_info_from_uri(table_uri) ==
    IF UriStarts(table_uri) # {}
    THEN groupdict_uri(table_uri, UriMatch(table_uri))
    ELSE EmptyDict

---------------------------------------------------------------------------
(* str.split(sep): cut at the non-overlapping occurrences of sep, scanning *)
(* from the left.                                                          *)

Occurrences(s, sep) == {i \in 1..Len(s) : StartsAt(s, i, sep)}

\* the occurrences split cuts at: the first one at or after from, then the
\* first one past its end, and so on
RECURSIVE Cuts(_, _, _)
Cuts(occ, from, width) ==
    IF {o \in occ : o >= from} = {} THEN <<>>
    ELSE LET i == SetMin({o \in occ : o >= from})
         IN  <<i>> \o Cuts(occ, i + width, width)

Split(s, sep) ==
    LET Pieces(cuts, n) ==
            [k \in 1..(n + 1) |->
                Sub(s, IF k = 1 THEN 1 ELSE cuts[k - 1] + Len(sep),
                       IF k = n + 1 THEN Len(s) ELSE cuts[k] - 1)]
        Cut(cuts) == Pieces(cuts, Len(cuts))
    IN  Cut(Cuts(Occurrences(s, sep), 1, Len(sep)))

RECURSIVE Join(_, _)
Join(parts, sep) ==
    IF Len(parts) = 0 THEN <<>>
    ELSE IF Len(parts) = 1 THEN parts[1]
    ELSE parts[1] \o sep \o Join(Tail(parts), sep)

---------------------------------------------------------------------------
(* The catalog client.  An entry is a record; the catalog maps the name of *)
(* every entry it holds to the entry.                                      *)

S_bigquery == <<"b", "i", "g", "q", "u", "e", "r", "y">>
S_hive == <<"h", "i", "v", "e">>
S_mysql == <<"m", "y", "s", "q", "l">>
S_tableau == <<"t", "a", "b", "l", "e", "a", "u">>
S_googleapis == <<".", "g", "o", "o", "g", "l", "e", "a", "p", "i", "s", ".", "c", "o", "m", "/", "p", "r", "o", "j", "e", "c", "t", "s", "/">>
S_datasets == <<"/", "d", "a", "t", "a", "s", "e", "t", "s", "/">>
S_tables == <<"/", "t", "a", "b", "l", "e", "s", "/">>
S_projects == <<"p", "r", "o", "j", "e", "c", "t", "s", "/">>
S_locations == <<"/", "l", "o", "c", "a", "t", "i", "o", "n", "s", "/">>
S_entryGroups == <<"/", "e", "n", "t", "r", "y", "G", "r", "o", "u", "p", "s", "/">>
S_entries == <<"/", "e", "n", "t", "r", "i", "e", "s", "/">>
S_uu == <<"_", "_">>
S_u == <<"_">>

\* DataCatalogClient.entry_path(project, location, entry_group, entry)
entry_path(project, location, entry_group, entry) ==
    S_projects \o project \o S_locations \o location
        \o S_entryGroups \o entry_group \o S_entries \o entry

Call(method, a) == [method |-> method, arg |-> a]

\* client.get_entry(name): the entry of that name, or NotFound
get_entry(cat, name) ==
    IF name \in DOMAIN cat THEN Ok("Entry", cat[name]) ELSE Raise("NotFound")

\* client.lookup_entry(linked_resource=url): the entry linked to url, or NotFound
lookup_entry(cat, url) ==
    LET hits == {n \in DOMAIN cat : cat[n].linked_resource = url}
    IN  IF hits # {} THEN Ok("Entry", cat[CHOOSE n \in hits : TRUE]) ELSE Raise("NotFound")

\* client.update_entry(entry): the catalog with the entry of that name replaced
update_entry(cat, entry) == [cat EXCEPT ![entry.name] = entry]

\* client.list_tags(resource_link)
list_tags(tg, resource_link) ==
    IF resource_link \in DOMAIN tg THEN tg[resource_link] ELSE <<>>

---------------------------------------------------------------------------
(* _get_table_entry: [outcome, value, calls]; value is the pair            *)
(* <<entry, entity_parameters>> of a normal return.                        *)

\* Separator, had the hive workaround been left out
SeparatorSingle(entity) == S_u

Separator(entity) == IF entity = S_hive THEN S_uu ELSE S_u

BigQueryUrl(entity, project_id, db_name, table_name) ==
    <<"/", "/">> \o entity \o S_googleapis \o project_id
        \o S_datasets \o db_name \o S_tables \o table_name

\* _get_table_entry, had the cluster been taken apart by its first and its
\* last piece instead of being unpacked into exactly two
_get_table_entry_unchecked(cat, table_uri) ==
    LET Found(entity_parameters, url, call, got) ==
            IF got.outcome = "ok"
            THEN Ok("tuple", <<got.value, [url |-> url] @@ entity_parameters>>) @@ [calls |-> <<call>>]
            ELSE got @@ [calls |-> <<call>>]
        Resolve(entity_parameters, entity, project_id, project_location, db_name, table_name) ==
            IF entity = S_bigquery
            THEN LET Lookup(url) ==
                        Found(entity_parameters, url, Call("lookup_entry", url), lookup_entry(cat, url))
                 IN  Lookup(BigQueryUrl(entity, project_id, db_name, table_name))
            ELSE LET Fetch(url) ==
                        Found(entity_parameters, url, Call("get_entry", url), get_entry(cat, url))
                 IN  Fetch(entry_path(project_id, project_location, entity,
                                      db_name \o Separator(entity) \o table_name))
        Unpack(entity_parameters, parts) ==
            Resolve(entity_parameters, entity_parameters.entity, parts[1], parts[Len(parts)],
                    entity_parameters.db, entity_parameters.name)
        Parsed(entity_parameters) ==
            IF "entity" \notin DOMAIN entity_parameters
            THEN Raise("KeyError") @@ [calls |-> <<>>]
            ELSE Unpack(entity_parameters, Split(entity_parameters.cluster, S_uu))
    IN  Parsed(_extract_info_from_uri(table_uri))

_get_table_entry(cat, table_uri) ==
    LET Found(entity_parameters, url, call, got) ==
            IF got.outcome = "ok"
            THEN Ok("tuple", <<got.value, [url |-> url] @@ entity_parameters>>) @@ [calls |-> <<call>>]
            ELSE got @@ [calls |-> <<call>>]
        Resolve(entity_parameters, entity, project_id, project_location, db_name, table_name) ==
            IF entity = S_bigquery
            THEN LET Lookup(url) ==
                        Found(entity_parameters, url, Call("lookup_entry", url), lookup_entry(cat, url))
                 IN  Lookup(BigQueryUrl(entity, project_id, db_name, table_name))
            ELSE LET Fetch(url) ==
                        Found(entity_parameters, url, Call("get_entry", url), get_entry(cat, url))
                 IN  Fetch(entry_path(project_id, project_location, entity,
                                      db_name \o Separator(entity) \o table_name))
        Unpack(entity_parameters, parts) ==
            IF Len(parts) # 2
            THEN Raise("ValueError") @@ [calls |-> <<>>]
            ELSE Resolve(entity_parameters, entity_parameters.entity, parts[1], parts[2],
                         entity_parameters.db, entity_parameters.name)
        Parsed(entity_parameters) ==
            IF "entity" \notin DOMAIN entity_parameters
            THEN Raise("KeyError") @@ [calls |-> <<>>]
            ELSE Unpack(entity_parameters, Split(entity_parameters.cluster, S_uu))
    IN  Parsed(_extract_info_from_uri(table_uri))

---------------------------------------------------------------------------
(* Character classes and the order of str comparison (code point order).   *)

Ascii ==
  <<"\t", "\n", " ", "(", ")", ",", "-", ".",
    "/", "0", "1", "2", "3", "4", "5", "6", "7", "8", "9", ":",
    "@", "A", "B", "C", "D", "E", "F", "G", "H", "I", "J", "K", "L", "M", "N",
    "O", "P", "Q", "R", "S", "T", "U", "V", "W", "X", "Y", "Z", "[", "]", "_",
    "a", "b", "c", "d", "e", "f", "g", "h", "i", "j", "k", "l", "m", "n", "o",
    "p", "q", "r", "s", "t", "u", "v", "w", "x", "y", "z">>

Ord(c) == CHOOSE i \in 1..Len(Ascii) : Ascii[i] = c

Digits == {"0", "1", "2", "3", "4", "5", "6", "7", "8", "9"}
Upper == {"A", "B", "C", "D", "E", "F", "G", "H", "I", "J", "K", "L", "M", "N", "O", "P", "Q", "R", "S", "T", "U", "V", "W", "X", "Y", "Z"}
Lower == {"a", "b", "c", "d", "e", "f", "g", "h", "i", "j", "k", "l", "m", "n", "o", "p", "q", "r", "s", "t", "u", "v", "w", "x", "y", "z"}
Space == {" ", "\t", NL}

\* a < b for two str: the first differing character decides, a proper prefix is smaller
StrLess(a, b) ==
    \E i \in 1..(Len(b)) :
        /\ i <= Len(a) + 1
        /\ \A k \in 1..(i - 1) : a[k] = b[k]
        /\ (i = Len(a) + 1 \/ Ord(a[i]) < Ord(b[i]))

\* SortedStrs, had the keys been compared as the numbers they spell
RECURSIVE SortedAsNumbers(_)
SortedAsNumbers(S) ==
    IF S = {} THEN <<>>
    ELSE LET m == CHOOSE x \in S : \A o \in S \ {x} :
                      Len(x) < Len(o) \/ (Len(x) = Len(o) /\ StrLess(x, o))
         IN  <<m>> \o SortedAsNumbers(S \ {m})

\* sorted(keys) of a set of pairwise different str
RECURSIVE SortedStrs(_)
SortedStrs(S) ==
    IF S = {} THEN <<>>
    ELSE LET m == CHOOSE x \in S : \A o \in S \ {x} : StrLess(x, o)
         IN  <<m>> \o SortedStrs(S \ {m})

---------------------------------------------------------------------------
(* Tags.  A tag is [template_display_name, fields]; fields is the sequence *)
(* of <<key, string_value>> items of dict(tag.fields) in the order the     *)
(* iteration yields them.                                                  *)

S_ResourceOwners == <<"R", "e", "s", "o", "u", "r", "c", "e", " ", "O", "w", "n", "e", "r", "s">>
S_DashboardMetadata == <<"D", "a", "s", "h", "b", "o", "a", "r", "d", " ", "M", "e", "t", "a", "d", "a", "t", "a">>
S_WorkbookMetadata == <<"W", "o", "r", "k", "b", "o", "o", "k", " ", "M", "e", "t", "a", "d", "a", "t", "a">>
S_DashMetadata == <<"-", " ", "M", "e", "t", "a", "d", "a", "t", "a">>

\* every <<key, string_value>> of the given tags, in iteration order
RECURSIVE Items(_)
Items(tgs) ==
    IF Len(tgs) = 0 THEN <<>> ELSE tgs[1].fields \o Items(Tail(tgs))

\* the dict built by d[k] = v over the items, later items overwriting earlier ones
RECURSIVE DictOf(_)
DictOf(items) ==
    IF Len(items) = 0 THEN EmptyDict
    ELSE LET last == items[Len(items)]
         IN  (last[1] :> last[2]) @@ DictOf(Sub(items, 1, Len(items) - 1))

User(email) == [user_id |-> email, email |-> email]

_get_resource_owners(tg, resource_link) ==
    LET IsOwners(tag) == tag.template_display_name = S_ResourceOwners
        Sorted(_emails, order) == [i \in 1..Len(order) |-> User(_emails[order[i]])]
        Emails(_emails) == Sorted(_emails, SortedStrs(DOMAIN _emails))
        Collect(items) ==
            IF \E i \in 1..Len(items) : Len(Split(items[i][1], S_u)) < 2
            THEN Raise("IndexError")
            ELSE Ok("list", Emails(DictOf([i \in 1..Len(items) |->
                                      <<Split(items[i][1], S_u)[2], items[i][2]>>])))
    IN  Collect(Items(SelectSeq(list_tags(tg, resource_link), IsOwners)))
            @@ [calls |-> <<Call("list_tags", resource_link)>>]

\* re.compile(".*" + suffix + "$").match(name)
MatchesSuffix(name, suffix) ==
    \E e \in UriEnds(name) :
        /\ EndsWith(Sub(name, 1, e), suffix)
        /\ NoNL(name, 1, e - Len(suffix))

_get_resource_metadata(tg, resource_link, suffix) ==
    LET Keep(tag) == MatchesSuffix(tag.template_display_name, suffix)
    IN  Ok("dict", DictOf(Items(SelectSeq(list_tags(tg, resource_link), Keep))))
            @@ [calls |-> <<Call("list_tags", resource_link)>>]

---------------------------------------------------------------------------
(* str.replace and str.strip *)

RECURSIVE Interleave(_, _)
Interleave(s, new) ==
    IF Len(s) = 0 THEN new ELSE new \o <<s[1]>> \o Interleave(Tail(s), new)

\* s.replace(old, new)
Replace(s, old, new) ==
    IF Len(old) = 0 THEN Interleave(s, new) ELSE Join(Split(s, old), new)

\* s.strip(chars)
Strip(s, chars) ==
    LET keep == {i \in 1..Len(s) : s[i] \notin chars}
    IN  IF keep = {} THEN <<>> ELSE Sub(s, SetMin(keep), SetMax(keep))

\* parts[-k] of a list
FromEnd(parts, k) == parts[Len(parts) - k + 1]

---------------------------------------------------------------------------
(* get_table_description, put_table_description *)

get_table_description(cat, table_uri) ==
    LET Resolved(r) ==
            IF r.outcome # "ok" THEN r @@ [cat |-> cat]
            ELSE Ok("str", r.value[1].description) @@ [calls |-> r.calls, cat |-> cat]
    IN  Resolved(_get_table_entry(cat, table_uri))

\* put_table_description, had it sent a fresh entry that carries the name
\* and the description only
put_table_description_fresh(cat, table_uri, description) ==
    LET Updated(r, entry) ==
            Ok("Entry", entry) @@ [calls |-> r.calls \o <<Call("update_entry", entry)>>,
                          cat |-> update_entry(cat, entry)]
        Resolved(r) ==
            IF r.outcome # "ok" THEN r @@ [cat |-> cat]
            ELSE Updated(r, [r.value[1] EXCEPT !.description = description, !.columns = <<>>])
    IN  Resolved(_get_table_entry(cat, table_uri))

put_table_description(cat, table_uri, description) ==
    LET Updated(r, entry) ==
            Ok("Entry", entry) @@ [calls |-> r.calls \o <<Call("update_entry", entry)>>,
                          cat |-> update_entry(cat, entry)]
        Resolved(r) ==
            IF r.outcome # "ok" THEN r @@ [cat |-> cat]
            ELSE Updated(r, [r.value[1] EXCEPT !.description = description])
    IN  Resolved(_get_table_entry(cat, table_uri))

---------------------------------------------------------------------------
(* The search projector.  A search hit carries relative_resource_name,     *)
(* linked_resource, user_specified_system (a str, empty when unset) and    *)
(* integrated_system (an enum number, 0 when unset).                       *)

S_slash == <<"/">>

BIGQUERY == 1

_process_table_entry(entry) ==
    LET Project(linked_resource_parts, relative_resource_name_parts, name, isint) ==
            IF isint /\ entry.integrated_system # BIGQUERY
            THEN Raise("NotImplementedError")
            ELSE IF isint /\ Len(linked_resource_parts) < 3
            THEN Raise("IndexError")
            ELSE IF Len(relative_resource_name_parts) < 4
            THEN Raise("IndexError")
            ELSE Ok("dict", [database |-> IF isint THEN S_bigquery ELSE entry.user_specified_system,
                     cluster |-> relative_resource_name_parts[2] \o S_uu
                                     \o relative_resource_name_parts[4],
                     schema |-> IF isint
                                THEN FromEnd(linked_resource_parts, 3)
                                ELSE Strip(Replace(FromEnd(relative_resource_name_parts, 1),
                                                   name, <<>>), {"_"}),
                     name |-> name])
        Parts(linked_resource_parts, relative_resource_name_parts) ==
            Project(linked_resource_parts, relative_resource_name_parts,
                    FromEnd(linked_resource_parts, 1), entry.user_specified_system = <<>>)
    IN  Parts(Split(entry.linked_resource, S_slash), Split(entry.relative_resource_name, S_slash))

\* the loop of _basic_search over the stream search_catalog returns:
\* [outcome, value = <<i, entries>>, pulled = elements taken from the stream]
RECURSIVE SearchLoop(_, _, _, _, _, _)
SearchLoop(stream, pos, i, entries, entry_type, num_entries) ==
    LET Step(result) ==
            IF result.outcome # "ok"
            THEN result @@ [pulled |-> pos]
            ELSE SearchLoop(stream, pos + 1, i + 1, Append(entries, result.value),
                            entry_type, num_entries)
    IN  IF pos > Len(stream)
        THEN Ok("tuple", <<i, entries>>) @@ [pulled |-> pos - 1]
        ELSE IF i <= num_entries
        THEN Step(IF entry_type = "table" THEN _process_table_entry(stream[pos]) ELSE Ok("SearchCatalogResult", stream[pos]))
        ELSE Ok("tuple", <<i, entries>>) @@ [pulled |-> pos]

_basic_search(stream, entry_type, num_entries, order_by) ==
    LET query == IF entry_type # "" THEN "type=" \o entry_type ELSE "*"
    IN  SearchLoop(stream, 1, 1, <<>>, entry_type, num_entries)
            @@ [calls |-> <<Call("search_catalog", [query |-> query, order_by |-> order_by])>>]

PopularTable(result) == result @@ [description |-> None]

get_popular_tables(stream, num_entries) ==
    LET Wrap(r, results) == [r EXCEPT !.type = "list",
                                      !.value = [k \in 1..Len(results) |-> PopularTable(results[k])]]
        Searched(r) == IF r.outcome # "ok" THEN r ELSE Wrap(r, r.value[2])
    IN  Searched(_basic_search(stream, "table", num_entries, ""))

\* get_latest_updated_ts; fails: whether the catalog fails the get_entry call
get_latest_updated_ts(cat, stream, fails) ==
    LET Resolved(r, name, got) ==
            [outcome |-> "ok",
             type |-> "int",
             value |-> IF got.outcome = "ok" THEN got.value.update_seconds ELSE 0,
             pulled |-> r.pulled,
             calls |-> r.calls \o <<Call("get_entry", name)>>]
        First(r, name) ==
            Resolved(r, name, IF fails THEN Raise("GoogleAPICallError") ELSE get_entry(cat, name))
        Searched(r) ==
            IF r.outcome # "ok" THEN r
            ELSE IF Len(r.value[2]) = 0 THEN [r EXCEPT !.type = "NoneType", !.value = None]
            ELSE First(r, r.value[2][1].relative_resource_name)
    IN  Searched(_basic_search(stream, "", 1, "last_modified_timestamp desc"))

---------------------------------------------------------------------------
(* get_table *)

S_Bigquery == <<"B", "i", "g", "q", "u", "e", "r", "y">>
S_FROM == <<"F", "R", "O", "M">>
S_dot == <<".">>
BACKTICK == "BACKTICK"    \* stands for the one character U+0060

SourceChars == Upper \cup Lower \cup Digits \cup {"-", "_", "."}

\* source_pattern.findall(view_query): the captured path of every match of
\*   FROM <whitespace> BACKTICK <one or more SourceChars> BACKTICK
\* here the starts of the matches; the first one is the smallest.
SourceMatches(q) ==
    {i \in 1..Len(q) :
        /\ StartsAt(q, i, S_FROM)
        /\ i + 5 <= Len(q)
        /\ q[i + 4] \in Space
        /\ q[i + 5] = BACKTICK
        /\ \E e \in (i + 7)..Len(q) :
              /\ q[e] = BACKTICK
              /\ \A k \in (i + 6)..(e - 1) : q[k] \in SourceChars}

SourcePath(q, i) ==
    LET e == SetMin({x \in (i + 7)..Len(q) : q[x] = BACKTICK}) IN Sub(q, i + 6, e - 1)

PLAIN_VIEW == 2

\* the nested is_view(): <<is_view, source>>
is_view(entity, entry) ==
    LET Source(path) == [source_type |-> S_Bigquery, source |-> FromEnd(Split(path, S_dot), 1)]
        First(found) ==
            IF found = {} THEN <<TRUE, None>>
            ELSE <<TRUE, Source(SourcePath(entry.view_query, SetMin(found)))>>
    IN  IF entity = S_bigquery /\ entry.table_source_type = PLAIN_VIEW
        THEN First(SourceMatches(entry.view_query))
        ELSE <<FALSE, None>>

Column(c) == [name |-> c.column, description |-> c.description, col_type |-> c.type, sort_order |-> 0]

ProgrammaticDescription(k, v) ==
    [source |-> Replace(k, S_u, <<" ">>), text |-> Replace(v, S_u, <<" ">>)]

get_table(cat, tg, table_uri) ==
    LET Table(entry, entity_parameters, view, programmatic_descriptions, owners, issued) ==
            IF owners.outcome # "ok" THEN [owners EXCEPT !.calls = issued]
            ELSE Ok("Table", [name |-> entity_parameters.name,
                     cluster |-> entity_parameters.cluster,
                     database |-> entity_parameters.entity,
                     schema |-> entity_parameters.db,
                     description |-> entry.description,
                     last_updated_timestamp |-> entry.update_seconds,
                     tags |-> <<>>,
                     badges |-> <<>>,
                     columns |-> [k \in 1..Len(entry.columns) |-> Column(entry.columns[k])],
                     is_view |-> view[1],
                     source |-> view[2],
                     owners |-> owners.value,
                     programmatic_descriptions |-> programmatic_descriptions])
                 @@ [calls |-> issued]
        Described(r, metadata, keys, owners) ==
            Table(r.value[1], r.value[2], is_view(r.value[2].entity, r.value[1]),
                  [k \in 1..Len(keys) |-> ProgrammaticDescription(keys[k], metadata.value[keys[k]])],
                  owners, r.calls \o metadata.calls \o owners.calls)
        Tagged(r, metadata, owners) ==
            Described(r, metadata, SortedStrs(DOMAIN metadata.value), owners)
        Linked(r, resource_link) ==
            Tagged(r, _get_resource_metadata(tg, resource_link, S_DashMetadata),
                   _get_resource_owners(tg, resource_link))
        Resolved(r) ==
            IF r.outcome # "ok" THEN r
            ELSE Linked(r, IF r.value[2].entity = S_bigquery THEN r.value[1].name ELSE r.value[2].url)
    IN  Resolved(_get_table_entry(cat, table_uri))

---------------------------------------------------------------------------
(* _get_table_details_from_dashboard_metadata: re.match of the pattern     *)
(*   ^ <database: Alnum or space, 1+> ( <conn: greedy any> ) /             *)
(*     [ <schema: Alpha or space, 1+> ] . [ <name: Alpha or space, 1+> ] $ *)
(* A match is <<a, b, c, e>>: "(" at a, ")" at b, the "]" closing schema   *)
(* at c, the "]" closing name at e.  groupdict() holds every named group.  *)

DatabaseChars == Upper \cup Lower \cup Digits \cup Space
NameChars == Upper \cup Lower \cup Space

S_open == <<")", "/", "[">>
S_mid == <<"]", ".", "[">>

DetailMatches(t) ==
    {m \in {a \in 2..Len(t) : t[a] = "("} \X {b \in 3..Len(t) : StartsAt(t, b, S_open)}
               \X {c \in 7..Len(t) : StartsAt(t, c, S_mid)} \X UriEnds(t) :
        /\ \A k \in 1..(m[1] - 1) : t[k] \in DatabaseChars
        /\ m[1] < m[2]
        /\ NoNL(t, m[1] + 1, m[2] - 1)
        /\ m[2] + 3 < m[3]
        /\ \A k \in (m[2] + 3)..(m[3] - 1) : t[k] \in NameChars
        /\ m[3] + 3 < m[4]
        /\ \A k \in (m[3] + 3)..(m[4] - 1) : t[k] \in NameChars
        /\ t[m[4]] = "]"}

\* of two matches: the longer conn, then the longer schema, then the longer name
DetailPrefers(m, o) ==
    \/ m[2] > o[2]
    \/ m[2] = o[2] /\ m[3] > o[3]
    \/ m[2] = o[2] /\ m[3] = o[3] /\ m[4] >= o[4]

DetailMatch(t) == CHOOSE m \in DetailMatches(t) : \A o \in DetailMatches(t) : DetailPrefers(m, o)

\* groupdict_details, had the conn group been left unnamed
groupdict_details_unnamed(t, m) ==
    [database |-> Sub(t, 1, m[1] - 1),
     schema   |-> Sub(t, m[2] + 3, m[3] - 1),
     name     |-> Sub(t, m[3] + 3, m[4] - 1)]

groupdict_details(t, m) ==
    [database |-> Sub(t, 1, m[1] - 1),
     conn     |-> Sub(t, m[1] + 1, m[2] - 1),
     schema   |-> Sub(t, m[2] + 3, m[3] - 1),
     name     |-> Sub(t, m[3] + 3, m[4] - 1)]

_get_table_details_from_dashboard_metadata(table_details, cluster) ==
    IF DetailMatches(table_details) # {}
    THEN [cluster |-> cluster] @@ groupdict_details(table_details, DetailMatch(table_details))
    ELSE EmptyDict

---------------------------------------------------------------------------
(* get_dashboard *)

S_workbook_name == <<"w", "o", "r", "k", "b", "o", "o", "k", "_", "n", "a", "m", "e">>
S_site_name == <<"s", "i", "t", "e", "_", "n", "a", "m", "e">>
S_last_run_state == <<"l", "a", "s", "t", "_", "r", "u", "n", "_", "s", "t", "a", "t", "e">>
S_recent_view_count == <<"r", "e", "c", "e", "n", "t", "_", "v", "i", "e", "w", "_", "c", "o", "u", "n", "t">>
S_upstream_tables == <<"u", "p", "s", "t", "r", "e", "a", "m", "_", "t", "a", "b", "l", "e", "s">>
S_Unknown == <<"U", "n", "k", "n", "o", "w", "n">>
S_comma == <<",">>

\* d.get(key, default)
Get(d, key, default) == IF key \in DOMAIN d THEN d[key] ELSE default

get_dashboard(cat, tg, id) ==
    LET Dashboard(entry, dashboard_metadata, _owners, _cluster, tokens, issued) ==
            Ok("DashboardDetail", [uri |-> entry.name,
                cluster |-> _cluster,
                group_name |-> Get(dashboard_metadata, S_site_name, None),
                group_url |-> <<>>,
                product |-> IF entry.user_specified_system # <<>>
                            THEN entry.user_specified_system
                            ELSE entry.integrated_system,
                name |-> Get(dashboard_metadata, S_workbook_name, None),
                url |-> <<>>,
                description |-> entry.description,
                created_timestamp |-> entry.create_seconds,
                updated_timestamp |-> entry.update_seconds,
                last_successful_run_timestamp |-> 0,
                last_run_timestamp |-> 0,
                last_run_state |-> Get(dashboard_metadata, S_last_run_state, S_Unknown),
                recent_view_count |-> Get(dashboard_metadata, S_recent_view_count, 0),
                owners |-> _owners,
                frequent_users |-> <<>>,
                tables |-> [k \in 1..Len(tokens) |->
                               _get_table_details_from_dashboard_metadata(tokens[k], _cluster)]])
            @@ [calls |-> issued]
        Tagged(entry, dashboard_metadata, workbook_metadata, relative_resource_name_parts,
               _owners, issued) ==
            IF _owners.outcome # "ok" THEN [_owners EXCEPT !.calls = issued]
            ELSE IF Len(relative_resource_name_parts) < 4
            THEN Raise("IndexError") @@ [calls |-> issued]
            ELSE Dashboard(entry, dashboard_metadata.value, _owners.value,
                           relative_resource_name_parts[2] \o S_uu \o relative_resource_name_parts[4],
                           Split(Get(workbook_metadata.value, S_upstream_tables, <<>>), S_comma),
                           issued)
        Listed(entry, dashboard_metadata, workbook_metadata, _owners) ==
            Tagged(entry, dashboard_metadata, workbook_metadata, Split(entry.name, S_slash), _owners,
                   <<Call("get_entry", id)>> \o dashboard_metadata.calls
                       \o workbook_metadata.calls \o _owners.calls)
        Fetched(got) ==
            IF got.outcome # "ok" THEN got @@ [calls |-> <<Call("get_entry", id)>>]
            ELSE Listed(got.value,
                        _get_resource_metadata(tg, got.value.name, S_DashboardMetadata),
                        _get_resource_metadata(tg, got.value.name, S_WorkbookMetadata),
                        _get_resource_owners(tg, got.value.name))
    IN  Fetched(get_entry(cat, id))

---------------------------------------------------------------------------
(* The catalog the proxy runs against: MaxTables table entries, ingested   *)
(* in turn from BigQuery, by the hive connector and by the mysql           *)
(* connector, and one dashboard entry ingested by the tableau connector.   *)

MaxTables == 3
MaxNum == 3

Project == <<"p">>
Location == <<"l">>
Db == <<"d">>
S_atbigquery == <<"@", "b", "i", "g", "q", "u", "e", "r", "y">>
S_bqlinked == <<"/", "/", "b", "i", "g", "q", "u", "e", "r", "y", ".", "g", "o", "o", "g", "l", "e", "a", "p", "i", "s", ".", "c", "o", "m", "/", "p", "r", "o", "j", "e", "c", "t", "s", "/">>
S_viewquery == <<"S", "E", "L", "E", "C", "T", " ", "1", " ", "F", "R", "O", "M", " ", BACKTICK, "p", ".", "d", ".", "b", BACKTICK>>

Systems == <<S_bigquery, S_hive, S_mysql>>
System(i) == Systems[((i - 1) % Len(Systems)) + 1]
TableName(i) == <<"t", Ascii[Ord("0") + (i % 10)]>>

IntegratedEntry(i) ==
    [name |-> entry_path(Project, Location, S_atbigquery, <<"h", Ascii[Ord("0") + (i % 10)]>>),
     linked_resource |-> S_bqlinked \o Project \o S_datasets \o Db \o S_tables \o TableName(i),
     kind |-> "table",
     user_specified_system |-> <<>>,
     integrated_system |-> BIGQUERY,
     description |-> <<"d", "0">>,
     create_seconds |-> i,
     update_seconds |-> 10 * i,
     columns |-> <<[column |-> <<"c">>, description |-> <<>>, type |-> <<"I", "N", "T">>]>>,
     table_source_type |-> PLAIN_VIEW,
     view_query |-> S_viewquery]

ConnectorEntry(i) ==
    [name |-> entry_path(Project, Location, System(i),
                         Db \o (IF System(i) = S_hive THEN S_uu ELSE S_u) \o TableName(i)),
     linked_resource |-> <<"/", "/">> \o System(i) \o S_slash \o Db \o S_slash \o TableName(i),
     kind |-> "table",
     user_specified_system |-> System(i),
     integrated_system |-> 0,
     description |-> <<"d", "0">>,
     create_seconds |-> i,
     update_seconds |-> 10 * i,
     columns |-> <<[column |-> <<"c">>, description |-> <<>>, type |-> <<"i", "n", "t">>]>>,
     table_source_type |-> 0,
     view_query |-> <<>>]

TableEntry(i) == IF System(i) = S_bigquery THEN IntegratedEntry(i) ELSE ConnectorEntry(i)

DashboardEntry ==
    [name |-> entry_path(Project, Location, S_tableau, <<"w", "1">>),
     linked_resource |-> <<"/", "/">> \o S_tableau \o S_slash \o <<"w", "1">>,
     kind |-> "dashboard",
     user_specified_system |-> S_tableau,
     integrated_system |-> 0,
     description |-> <<"d", "0">>,
     create_seconds |-> 1,
     update_seconds |-> 5,
     columns |-> <<>>,
     table_source_type |-> 0,
     view_query |-> <<>>]

\* the catalog holding the first k tables and, if withDashboard, the dashboard
CatalogOf(k, withDashboard) ==
    LET entries == {TableEntry(i) : i \in 1..k} \cup (IF withDashboard THEN {DashboardEntry} ELSE {})
    IN  [n \in {e.name : e \in entries} |-> CHOOSE e \in entries : e.name = n]

Field(key, value) == <<key, value>>
Tag(name, fields) == [template_display_name |-> name, fields |-> fields]

S_owner_1 == <<"o", "w", "n", "e", "r", "_", "1">>
S_owner_2 == <<"o", "w", "n", "e", "r", "_", "2">>
S_owner_10 == <<"o", "w", "n", "e", "r", "_", "1", "0">>
S_num_rows == <<"n", "u", "m", "_", "r", "o", "w", "s">>
S_token == <<"O", "r", "a", "c", "l", "e", "(", "c", ")", "/", "[", "S", "]", ".", "[", "O", "]">>

TableTags ==
    <<Tag(S_ResourceOwners, <<Field(S_owner_2, <<"b">>), Field(S_owner_1, <<"a">>)>>),
      Tag(<<"H", " ">> \o S_DashMetadata, <<Field(S_num_rows, <<"1", "_", "0">>)>>)>>

DashboardTags ==
    <<Tag(S_ResourceOwners, <<Field(S_owner_1, <<"a">>)>>),
      Tag(<<"T", " ">> \o S_DashboardMetadata, <<Field(S_workbook_name, <<"w">>)>>),
      Tag(<<"T", " ">> \o S_WorkbookMetadata,
          <<Field(S_upstream_tables, S_token \o S_comma \o <<"x">>)>>)>>

TagsOf(cat) ==
    [n \in DOMAIN cat |-> IF cat[n].kind = "dashboard" THEN DashboardTags ELSE TableTags]

\* a table_uri as the frontend writes it
Uri(entity, cluster, db, name) == entity \o S_sep \o cluster \o S_dot \o db \o S_slash \o name

TableUri(i) == Uri(System(i), Project \o S_uu \o Location, Db, TableName(i))

TestUris ==
    {TableUri(i) : i \in 1..(MaxTables + 1)}
        \cup {S_hive \o <<":">> \o Project \o S_uu \o Location \o S_dot \o Db \o S_slash \o TableName(2),
              Uri(S_hive, Project \o S_uu \o Location, Db, TableName(2)) \o <<NL, NL>>,
              Uri(S_hive, Project \o S_u \o Location, Db, TableName(2)),
              Uri(S_bigquery, Project, Db, TableName(1)),
              Uri(S_mysql, Project \o S_uu \o Location \o S_uu \o Location, Db, TableName(3)),
              <<>>}

Descriptions == {<<"x">>}

\* search_catalog's stream: the hits for the entries the query selects, in
\* ascending or descending order of update time
RECURSIVE HitsOf(_, _)
HitsOf(cat, names) ==
    IF names = {} THEN <<>>
    ELSE LET n == CHOOSE x \in names : \A o \in names : cat[x].update_seconds <= cat[o].update_seconds
             e == cat[n]
         IN  <<[relative_resource_name |-> e.name,
                linked_resource |-> e.linked_resource,
                user_specified_system |-> e.user_specified_system,
                integrated_system |-> e.integrated_system]>> \o HitsOf(cat, names \ {n})

Reverse(s) == [k \in 1..Len(s) |-> s[Len(s) - k + 1]]

TableStreams(cat) ==
    LET asc == HitsOf(cat, {n \in DOMAIN cat : cat[n].kind = "table"}) IN {asc, Reverse(asc)}

LatestStream(cat) == Reverse(HitsOf(cat, DOMAIN cat))

---------------------------------------------------------------------------
(* The proxy's operations, one call each.                                  *)

NoCall == [op |-> "none", outcome |-> "none", type |-> "none", value |-> <<>>]

Init ==
    /\ \E k \in 0..MaxTables :
          /\ catalog = CatalogOf(k, k > 0)
          /\ tags = TagsOf(CatalogOf(k, k > 0))
    /\ arg = <<>>
    /\ ret = NoCall
    /\ calls = <<>>
    /\ pulled = 0

\* the call op(a) ended as r, having pulled n elements from the search stream
Report(op, a, r, n) ==
    /\ arg' = a
    /\ ret' = [op |-> op, outcome |-> r.outcome, type |-> r.type, value |-> r.value]
    /\ calls' = r.calls
    /\ pulled' = n

GetTableEntry ==
    \E table_uri \in TestUris :
        /\ Report("_get_table_entry", [table_uri |-> table_uri],
                  _get_table_entry(catalog, table_uri), 0)
        /\ UNCHANGED <<catalog, tags>>

GetTable ==
    \E table_uri \in TestUris :
        /\ Report("get_table", [table_uri |-> table_uri],
                  get_table(catalog, tags, table_uri), 0)
        /\ UNCHANGED <<catalog, tags>>

GetTableDescription ==
    \E table_uri \in TestUris :
        /\ Report("get_table_description", [table_uri |-> table_uri],
                  get_table_description(catalog, table_uri), 0)
        /\ UNCHANGED <<catalog, tags>>

PutTableDescription ==
    \E table_uri \in TestUris, description \in Descriptions :
        LET Done(r) ==
                /\ Report("put_table_description",
                          [table_uri |-> table_uri, description |-> description], r, 0)
                /\ catalog' = r.cat
        IN  /\ Done(put_table_description(catalog, table_uri, description))
            /\ UNCHANGED tags

GetPopularTables ==
    \E num_entries \in 0..MaxNum, stream \in TableStreams(catalog) :
        LET Done(r) ==
                Report("get_popular_tables", [num_entries |-> num_entries, stream |-> stream],
                       r, r.pulled)
        IN  /\ Done(get_popular_tables(stream, num_entries))
            /\ UNCHANGED <<catalog, tags>>

GetLatestUpdatedTs ==
    \E fails \in BOOLEAN, stream \in {LatestStream(catalog)} :
        LET Done(r) ==
                Report("get_latest_updated_ts", [stream |-> stream, fails |-> fails], r, r.pulled)
        IN  /\ Done(get_latest_updated_ts(catalog, stream, fails))
            /\ UNCHANGED <<catalog, tags>>

DashboardIds == {DashboardEntry.name, TableEntry(2).name, <<"w", "1">>}

GetDashboard ==
    \E id \in DashboardIds :
        /\ Report("get_dashboard", [id |-> id], get_dashboard(catalog, tags, id), 0)
        /\ UNCHANGED <<catalog, tags>>

\* the operations whose body is "pass"
Placeholders ==
    {"get_users", "delete_owner", "add_owner", "add_tag", "delete_tag",
     "put_column_description", "get_column_description", "get_tags",
     "get_dashboard_by_user_relation", "get_table_by_user_relation",
     "get_frequently_used_tables", "add_resource_relation_by_user",
     "delete_resource_relation_by_user", "get_dashboard_description",
     "put_dashboard_description", "get_resources_using_table", "get_user"}

Placeholder ==
    \E op \in Placeholders :
        /\ Report(op, <<>>, Ok("NoneType", None) @@ [calls |-> <<>>], 0)
        /\ UNCHANGED <<catalog, tags>>

Next ==
    \/ GetTableEntry
    \/ GetTable
    \/ GetTableDescription
    \/ PutTableDescription
    \/ GetPopularTables
    \/ GetLatestUpdatedTs
    \/ GetDashboard
    \/ Placeholder

Spec == Init /\ [][Next]_vars

---------------------------------------------------------------------------
(* The owner extractor on its own: every tag listing of at most MaxFields  *)
(* fields keyed owner_1, owner_2 or owner_10, cut into tags in every way,  *)
(* each tag from the owners template or from a metadata template.  The     *)
(* value of the k-th field of the listing is the address <<"e", k>>, so    *)
(* that an owner tells which field it came from.                           *)

MaxFields == 3

OwnerKeys == {S_owner_1, S_owner_2, S_owner_10}
S_OtherTemplate == <<"H", " ">> \o S_DashMetadata
Email(k) == <<"e", Ascii[Ord("0") + (k % 10)]>>

\* the tags of a listing whose k-th field has key ks[k]; a tag starts at
\* every k with cut[k], from template tmpl[k]
TagsFrom(ks, cut, tmpl) ==
    LET starts == {k \in 1..Len(ks) : cut[k]}
        EndOf(k) == IF {x \in starts : x > k} = {} THEN Len(ks)
                    ELSE SetMin({x \in starts : x > k}) - 1
        TagAt(k) == Tag(tmpl[k], [x \in 1..(EndOf(k) - k + 1) |-> Field(ks[k + x - 1], Email(k + x - 1))])
        RECURSIVE Build(_)
        Build(k) == IF k > Len(ks) THEN <<>> ELSE <<TagAt(k)>> \o Build(EndOf(k) + 1)
    IN  Build(1)

Listings ==
    LET Shapes(n) ==
            {sh \in [cut : [1..n -> BOOLEAN], tmpl : [1..n -> {S_ResourceOwners, S_OtherTemplate}]] :
                /\ n > 0 => sh.cut[1]
                /\ \A k \in 1..n : ~sh.cut[k] => sh.tmpl[k] = S_ResourceOwners}
        DistinctKeys(tag) ==
            \A x, y \in 1..Len(tag.fields) : x # y => tag.fields[x][1] # tag.fields[y][1]
        Wellformed(tgs) == \A t \in 1..Len(tgs) : DistinctKeys(tgs[t])
    IN  {tgs \in UNION {{TagsFrom(ks, sh.cut, sh.tmpl) : sh \in Shapes(Len(ks))} :
                            ks \in StrUpTo(OwnerKeys, MaxFields)} : Wellformed(tgs)}

OwnersCatalog == CatalogOf(2, TRUE)

InitOwners ==
    /\ catalog = OwnersCatalog
    /\ \E listing \in Listings : tags = [n \in DOMAIN OwnersCatalog |-> listing]
    /\ arg = <<>>
    /\ ret = NoCall
    /\ calls = <<>>
    /\ pulled = 0

GetResourceOwners ==
    /\ ret.op = "none"
    /\ Report("_get_resource_owners", [resource_link |-> DashboardEntry.name],
              _get_resource_owners(tags, DashboardEntry.name), 0)
    /\ UNCHANGED <<catalog, tags>>

GetTableOwners ==
    /\ ret.op = "none"
    /\ Report("get_table", [table_uri |-> TableUri(2)], get_table(catalog, tags, TableUri(2)), 0)
    /\ UNCHANGED <<catalog, tags>>

GetDashboardOwners ==
    /\ ret.op = "none"
    /\ Report("get_dashboard", [id |-> DashboardEntry.name],
              get_dashboard(catalog, tags, DashboardEntry.name), 0)
    /\ UNCHANGED <<catalog, tags>>

NextOwners == GetResourceOwners \/ GetTableOwners \/ GetDashboardOwners

SpecOwners == InitOwners /\ [][NextOwners]_vars

---------------------------------------------------------------------------
(* The dashboard token parser on its own: the dashboard's workbook tag     *)
(* carries an upstream_tables value, either at most MaxTokens sample       *)
(* tokens joined by commas or one token assembled from the pieces below.   *)

MaxTokens == 2

DatabasePieces == {<<"O">>, <<"O", " ", "1">>, <<"O", "_">>, <<>>}
ConnPieces == {<<>>, <<"c">>, <<"(", ")">>, <<"c", ",", "d">>, <<NL>>}
SchemaPieces == {<<"S">>, <<"S", "1">>, <<>>}
NamePieces == {<<"N">>, <<"N", " ">>}

Token(database, conn, schema, name) ==
    database \o <<"(">> \o conn \o <<")", "/", "[">> \o schema \o <<"]", ".", "[">> \o name \o <<"]">>

AssembledTokens ==
    {Token(d, c, s, n) : d \in DatabasePieces, c \in ConnPieces, s \in SchemaPieces, n \in NamePieces}

SampleTokens ==
    {S_token, <<"x">>, <<>>, Token(<<"O">>, <<>>, <<"S">>, <<"N">>) \o <<NL>>,
     <<"O", "/", "[", "S", "]", ".", "[", "N", "]">>}

UpstreamValues ==
    AssembledTokens \cup {Join(tokens, S_comma) : tokens \in StrUpTo(SampleTokens, MaxTokens) \ {<<>>}}

DetailsCatalog == CatalogOf(0, TRUE)
DetailsCluster == Project \o S_uu \o Location

DetailsTags(upstream_tables) ==
    <<Tag(S_ResourceOwners, <<Field(S_owner_1, <<"a">>)>>),
      Tag(<<"T", " ">> \o S_WorkbookMetadata, <<Field(S_upstream_tables, upstream_tables)>>)>>

InitDetails ==
    /\ catalog = DetailsCatalog
    /\ \E upstream_tables \in UpstreamValues :
          /\ tags = [n \in DOMAIN DetailsCatalog |-> DetailsTags(upstream_tables)]
          /\ arg = [upstream_tables |-> upstream_tables]
    /\ ret = NoCall
    /\ calls = <<>>
    /\ pulled = 0

GetTableDetails ==
    /\ ret.op = "none"
    /\ Report("_get_table_details_from_dashboard_metadata", arg,
              Ok("dict", _get_table_details_from_dashboard_metadata(arg.upstream_tables, DetailsCluster))
                  @@ [calls |-> <<>>], 0)
    /\ UNCHANGED <<catalog, tags>>

GetDashboardTables ==
    /\ ret.op = "none"
    /\ Report("get_dashboard", arg, get_dashboard(catalog, tags, DashboardEntry.name), 0)
    /\ UNCHANGED <<catalog, tags>>

NextDetails == GetTableDetails \/ GetDashboardTables

SpecDetails == InitDetails /\ [][NextDetails]_vars

---------------------------------------------------------------------------
(* Resolver and search projector together: the catalog holds one entry     *)
(* that a connector ingested for table name of database db, named by the   *)
(* rule the resolver uses to look it up.                                   *)

MaxNameLen == 2

NameAlphabet == {"a", "b", "_"}
Connectors == {S_hive, S_mysql}

IngestedEntry(entity, db, name) ==
    [name |-> entry_path(Project, Location, entity, db \o Separator(entity) \o name),
     linked_resource |-> <<"/", "/">> \o entity \o S_slash \o db \o S_slash \o name,
     kind |-> "table",
     user_specified_system |-> entity,
     integrated_system |-> 0,
     description |-> <<"d", "0">>,
     create_seconds |-> 1,
     update_seconds |-> 10,
     columns |-> <<>>,
     table_source_type |-> 0,
     view_query |-> <<>>]

IngestedCatalog(entity, db, name) ==
    [n \in {IngestedEntry(entity, db, name).name} |-> IngestedEntry(entity, db, name)]

InitRoundTrip ==
    /\ \E entity \in Connectors, db, name \in StrUpTo(NameAlphabet, MaxNameLen) \ {<<>>} :
          /\ catalog = IngestedCatalog(entity, db, name)
          /\ arg = [entity |-> entity, db |-> db, name |-> name]
    /\ tags = [n \in DOMAIN catalog |-> <<>>]
    /\ ret = NoCall
    /\ calls = <<>>
    /\ pulled = 0

SearchIngested ==
    /\ ret.op = "none"
    /\ \E stream \in TableStreams(catalog) :
          LET Done(r) == Report("get_popular_tables", arg, r, r.pulled)
          IN  Done(get_popular_tables(stream, 1))
    /\ UNCHANGED <<catalog, tags>>

ResolveIngested ==
    /\ ret.op = "none"
    /\ Report("_get_table_entry", arg,
              _get_table_entry(catalog, Uri(arg.entity, Project \o S_uu \o Location, arg.db, arg.name)), 0)
    /\ UNCHANGED <<catalog, tags>>

NextRoundTrip == SearchIngested \/ ResolveIngested

SpecRoundTrip == InitRoundTrip /\ [][NextRoundTrip]_vars

---------------------------------------------------------------------------
(* The parser on its own: every string over UriChars up to MaxUriLen.      *)

MaxUriLen == 6

UriChars == {"a", ":", "/", ".", NL}

InitUri ==
    /\ catalog = <<>>
    /\ tags = <<>>
    /\ arg \in StrUpTo(UriChars, MaxUriLen)
    /\ ret = NoCall
    /\ calls = <<>>
    /\ pulled = 0

ExtractInfoFromUri ==
    /\ ret.op = "none"
    /\ ret' = [op |-> "_extract_info_from_uri"] @@ Ok("dict", _extract_info_from_uri(arg))
    /\ UNCHANGED <<catalog, tags, arg, calls, pulled>>

SpecUri == InitUri /\ [][ExtractInfoFromUri]_vars

---------------------------------------------------------------------------
(* Properties of the proxy.                                                *)

Lookups == {"lookup_entry", "get_entry"}
IsLookup(call) == call.method \in Lookups
IsUpdate(call) == call.method = "update_entry"
Resolving == {"get_table", "get_table_description", "put_table_description"}
UriKeys == {"entity", "cluster", "db", "name"}
DetailKeys == {"database", "conn", "schema", "name", "cluster"}

\* ---- owners ----

\* the owners an operation returned
OwnersReturned == IF ret.op = "_get_resource_owners" THEN ret.value ELSE ret.value.owners

\* the positions <<tag, field>> of the owner fields of a listing, the n of the
\* key owner_<n> at a position, and whether a position is enumerated before
\* another
OwnerFields(listing) ==
    {p \in (1..Len(listing)) \X (1..MaxFields) :
        /\ listing[p[1]].template_display_name = S_ResourceOwners
        /\ p[2] <= Len(listing[p[1]].fields)}
SuffixAt(listing, p) ==
    Sub(listing[p[1]].fields[p[2]][1], 7, Len(listing[p[1]].fields[p[2]][1]))
ValueAt(listing, p) == listing[p[1]].fields[p[2]][2]
EnumeratedBefore(p, q) == p[1] < q[1] \/ (p[1] = q[1] /\ p[2] < q[2])

\* the owner fields that no later field of the same n overwrites
Winners(listing) ==
    {p \in OwnerFields(listing) :
        \A q \in OwnerFields(listing) :
            SuffixAt(listing, q) = SuffixAt(listing, p) => ~EnumeratedBefore(p, q)}

RECURSIVE NumberOf(_)
NumberOf(digits) ==
    IF digits = <<>> THEN 0
    ELSE 10 * NumberOf(Sub(digits, 1, Len(digits) - 1)) + (Ord(digits[Len(digits)]) - Ord("0"))

\* the owners are the values of the winning fields, one each, and Before
\* orders the n of any two of them
OwnersOrdered(owners, listing, Before(_, _)) ==
    /\ Len(owners) = Cardinality(Winners(listing))
    /\ \A i \in 1..Len(owners) :
          /\ owners[i].user_id = owners[i].email
          /\ \E p \in Winners(listing) : ValueAt(listing, p) = owners[i].email
    /\ \A i, j \in 1..Len(owners) : \A p, q \in Winners(listing) :
          (i < j /\ ValueAt(listing, p) = owners[i].email /\ ValueAt(listing, q) = owners[j].email)
              => Before(SuffixAt(listing, p), SuffixAt(listing, q))

OwnersOps == {"_get_resource_owners", "get_table", "get_dashboard"}

\* C1 (as the code has it): for every tag listing whose owner fields are keyed
\* owner_<n>, the owners returned by _get_resource_owners, get_table and
\* get_dashboard are the values of the 'Resource Owners' fields, one per n
\* (the field enumerated last for that n), in ascending lexicographic (code
\* point) order of the string n, so that owner_10 comes before owner_2.
C1_OwnersInLexicographicOrder ==
    (ret.op \in OwnersOps /\ ret.outcome = "ok")
        => OwnersOrdered(OwnersReturned, tags[DashboardEntry.name], StrLess)

\* C1 (as the specification has it): the owners are in ascending numeric
\* order of n, owner_10 after owner_2.
C1_OwnersInNumericOrder ==
    (ret.op \in OwnersOps /\ ret.outcome = "ok")
        => OwnersOrdered(OwnersReturned, tags[DashboardEntry.name],
                         LAMBDA a, b : NumberOf(a) < NumberOf(b))

\* get_table has returned the owner of an owner_10 field ahead of the owner of
\* an owner_2 field that was enumerated first
C1_Witness ==
    /\ ret.op = "get_table"
    /\ ret.outcome = "ok"
    /\ Len(ret.value.owners) >= 2
    /\ \E p, q \in Winners(tags[DashboardEntry.name]) :
          /\ EnumeratedBefore(q, p)
          /\ SuffixAt(tags[DashboardEntry.name], p) = <<"1", "0">>
          /\ SuffixAt(tags[DashboardEntry.name], q) = <<"2">>
          /\ \E i, j \in 1..Len(ret.value.owners) :
                /\ i < j
                /\ ret.value.owners[i].email = ValueAt(tags[DashboardEntry.name], p)
                /\ ret.value.owners[j].email = ValueAt(tags[DashboardEntry.name], q)

\* ---- search ----

\* C2: for every limit N and every stream of more than N table hits,
\* get_popular_tables(num_entries = N) returns exactly N projected records, in
\* stream order, and has advanced the stream by exactly N elements.
C2_StreamAdvancedByLimit ==
    (ret.op = "get_popular_tables" /\ Len(arg.stream) > arg.num_entries)
        => /\ ret.outcome = "ok"
           /\ Len(ret.value) = arg.num_entries
           /\ \A k \in 1..Len(ret.value) :
                 ret.value[k].name = FromEnd(Split(arg.stream[k].linked_resource, S_slash), 1)
           /\ pulled = arg.num_entries

\* C3: whenever the search does not fail, get_latest_updated_ts returns an
\* integer: the update time of the first hit when get_entry succeeds, 0 when
\* get_entry fails; the failure never reaches the caller.
C3_LatestTimestampIsInteger ==
    ret.op = "get_latest_updated_ts"
        => /\ ret.outcome = "ok"
           /\ ret.type = "int"
           /\ Len(arg.stream) > 0
                 => ret.value = IF arg.fails THEN 0
                                ELSE catalog[arg.stream[1].relative_resource_name].update_seconds

\* ---- resolver ----

\* C4: for every table_uri that parses to (entity, cluster = <p>__<l>, db,
\* name), _get_table_entry issues exactly one lookup: lookup_entry on
\* //bigquery.googleapis.com/projects/<p>/datasets/<db>/tables/<name> when the
\* entity is bigquery, get_entry on entry_path(p, l, entity, <db><sep><name>)
\* otherwise, sep being __ for hive and _ for the rest; the ParsedURI returned
\* carries the identifier of that lookup under url and the four parsed values.
C4_OneLookupByEntity ==
    LET Expected(p, parts) ==
            IF p.entity = S_bigquery
            THEN Call("lookup_entry", S_bqlinked \o parts[1] \o S_datasets \o p.db \o S_tables \o p.name)
            ELSE Call("get_entry",
                      entry_path(parts[1], parts[2], p.entity,
                                 p.db \o (IF p.entity = S_hive THEN <<"_", "_">> ELSE <<"_">>) \o p.name))
        Holds(p, parts) ==
            /\ SelectSeq(calls, IsLookup) = <<Expected(p, parts)>>
            /\ ret.outcome = "ok" => ret.value[2] = [url |-> Expected(p, parts).arg] @@ p
        Parsed(p) ==
            (DOMAIN p = UriKeys /\ Len(Split(p.cluster, S_uu)) = 2) => Holds(p, Split(p.cluster, S_uu))
    IN  ret.op = "_get_table_entry" => Parsed(_extract_info_from_uri(arg.table_uri))

\* _get_table_entry has found a hive entry by get_entry on a name with __
C4_Witness ==
    /\ ret.op = "_get_table_entry"
    /\ ret.outcome = "ok"
    /\ ret.value[2].entity = S_hive
    /\ Len(calls) = 1
    /\ calls[1].method = "get_entry"
    /\ ret.value[2].url = calls[1].arg
    /\ ret.value[1].name = calls[1].arg

\* C5: over any sequence of operations only put_table_description changes the
\* catalog: a successful one issues one lookup and then exactly one
\* update_entry, carrying the resolved entry with the description replaced by
\* the argument and nothing else changed; every other operation, and a
\* put_table_description whose resolution fails, issues no update_entry and
\* leaves the catalog as it was.
C5_OnlyPutTableDescriptionUpdates ==
    [][IF ret'.op = "put_table_description" /\ ret'.outcome = "ok"
       THEN /\ Len(calls') = 2
            /\ IsLookup(calls'[1])
            /\ IsUpdate(calls'[2])
            /\ \E n \in DOMAIN catalog :
                  /\ calls'[1].method = "get_entry" => n = calls'[1].arg
                  /\ calls'[1].method = "lookup_entry" => catalog[n].linked_resource = calls'[1].arg
                  /\ calls'[2].arg = [catalog[n] EXCEPT !.description = arg'.description]
                  /\ catalog' = [catalog EXCEPT ![n] = calls'[2].arg]
       ELSE /\ SelectSeq(calls', IsUpdate) = <<>>
            /\ catalog' = catalog]_vars

\* put_table_description has replaced the description of an entry
C5_Witness ==
    /\ ret.op = "put_table_description"
    /\ ret.outcome = "ok"
    /\ Len(calls) = 2
    /\ calls[2].method = "update_entry"
    /\ calls[2].arg.description = arg.description
    /\ catalog[calls[2].arg.name].description = arg.description
    /\ \E n \in DOMAIN catalog : catalog[n].description # arg.description

\* C6: get_table, get_table_description and put_table_description fail with
\* KeyError on a table_uri that does not match the grammar, and with
\* ValueError on one that matches with a cluster holding no __; in both cases
\* no call to the catalog client has been issued and the catalog is as it was.
C6_MalformedUriFailsBeforeAnyCall ==
    [][LET Malformed(outcome) ==
               /\ ret'.outcome = outcome
               /\ calls' = <<>>
               /\ catalog' = catalog
           Parsed(p) ==
               (DOMAIN p = UriKeys /\ Occurrences(p.cluster, S_uu) = {}) => Malformed("ValueError")
       IN  ret'.op \in Resolving
               => /\ UriStarts(arg'.table_uri) = {} => Malformed("KeyError")
                  /\ Parsed(_extract_info_from_uri(arg'.table_uri))]_vars

\* put_table_description has failed on a cluster without __
C6_Witness ==
    /\ ret.op = "put_table_description"
    /\ ret.outcome = "ValueError"
    /\ calls = <<>>
    /\ UriStarts(arg.table_uri) # {}
    /\ Occurrences(_extract_info_from_uri(arg.table_uri).cluster, S_uu) = {}

\* C7: every placeholder operation ends in a "not supported" error and never
\* returns normally.
C7_PlaceholdersSignalNotSupported ==
    ret.op \in Placeholders => ret.outcome # "ok"

\* ---- dashboard tokens ----

\* what the parser makes of a token: nothing when the token does not fit the
\* grammar, else a record over keys whose values spell the token
DetailsOf(record, token, cluster, keys) ==
    \/ /\ DOMAIN record = {}
       /\ DetailMatches(token) = {}
    \/ /\ DOMAIN record = keys
       /\ record.cluster = cluster
       /\ record.database # <<>> /\ record.schema # <<>> /\ record.name # <<>>
       /\ \E conn \in {Sub(token, a, b) : a \in 1..(Len(token) + 1), b \in 0..Len(token)} :
             /\ "conn" \in keys => record.conn = conn
             /\ token \in {Token(record.database, conn, record.schema, record.name),
                           Token(record.database, conn, record.schema, record.name) \o <<NL>>}

TablesOf(keys) ==
    /\ ret.op = "_get_table_details_from_dashboard_metadata"
          => DetailsOf(ret.value, arg.upstream_tables, DetailsCluster, keys)
    /\ (ret.op = "get_dashboard" /\ ret.outcome = "ok")
          => /\ Len(ret.value.tables) = Cardinality(Occurrences(arg.upstream_tables, S_comma)) + 1
             /\ \A k \in 1..Len(ret.value.tables) :
                   DetailsOf(ret.value.tables[k], Split(arg.upstream_tables, S_comma)[k],
                             ret.value.cluster, keys)

\* C8 (as the code has it): for every token of upstream_tables,
\* _get_table_details_from_dashboard_metadata returns the empty record when the
\* token does not fit Database(Conn)/[Schema].[Name], and else a record of
\* exactly the fields database, conn, schema, name and cluster, the first four
\* spelling the token and cluster being the dashboard's cluster; get_dashboard
\* builds tables from one such record per comma-separated token.
C8_RecordKeepsConn == TablesOf(DetailKeys)

\* C8 (as the specification has it): the record of a fitting token has exactly
\* the fields database, schema, name and cluster, the connection discarded.
C8_RecordDropsConn == TablesOf(DetailKeys \ {"conn"})

\* get_dashboard has built tables from a fitting and a non-fitting token
C8_Witness ==
    /\ ret.op = "get_dashboard"
    /\ ret.outcome = "ok"
    /\ \E j, k \in 1..Len(ret.value.tables) :
          /\ DOMAIN ret.value.tables[j] = {}
          /\ DOMAIN ret.value.tables[k] = DetailKeys
          /\ ret.value.tables[k].conn = <<"c">>
          /\ ret.value.tables[k].cluster = DetailsCluster

\* ---- table_uri ----

\* what the parser makes of a table_uri: a mapping of the four keys whose
\* values spell it
UriOf(d, table_uri) ==
    /\ DOMAIN d = UriKeys
    /\ table_uri \in {Uri(d.entity, d.cluster, d.db, d.name),
                      Uri(d.entity, d.cluster, d.db, d.name) \o <<NL>>}

\* C9 (as the code has it): for every input string _extract_info_from_uri
\* returns, without raising, the empty mapping or a mapping of exactly the keys
\* entity, cluster, db and name, whose values are strings that may be empty
\* and that spell the input as <entity>://<cluster>.<db>/<name>.
C9_FourKeysOrEmpty ==
    ret.op = "_extract_info_from_uri"
        => /\ ret.outcome = "ok"
           /\ DOMAIN ret.value = {} \/ UriOf(ret.value, arg)

\* C9 (as the specification has it): all four values are non-empty.
C9_FourNonEmptyValuesOrEmpty ==
    ret.op = "_extract_info_from_uri"
        => /\ ret.outcome = "ok"
           /\ \/ DOMAIN ret.value = {}
              \/ /\ UriOf(ret.value, arg)
                 /\ \A k \in UriKeys : ret.value[k] # <<>>

\* the parser has returned four empty values
C9_Witness ==
    /\ ret.op = "_extract_info_from_uri"
    /\ DOMAIN ret.value = UriKeys
    /\ \A k \in UriKeys : ret.value[k] = <<>>

\* ---- round trip ----

\* C10: a connector entry named <db><sep><name> by the resolver's rule, whose
\* linked resource ends in /<name>, is projected by get_popular_tables to a
\* record with name = <name> and schema = <db>.
C10_ProjectionNamesDbAndTable ==
    ret.op = "get_popular_tables"
        => /\ ret.outcome = "ok"
           /\ Len(ret.value) = 1
           /\ ret.value[1].name = arg.name
           /\ ret.value[1].schema = arg.db

====
